---------------------------- MODULE Spec2Model ----------------------------
(***************************************************************************)
(* A model of src/util.rs of schnorrkel: the scalar sampler                *)
(* (scalar_from_xof), the cofactor arithmetic on 32-byte little-endian     *)
(* buffers and on Scalars, and the bridge between RistrettoPoint and       *)
(* EdwardsPoint.                                                           *)
(*                                                                         *)
(* A buffer [u8; 32] is a sequence of 32 naturals below 256; index 1 of    *)
(* the sequence is index 0 of the array (the least significant byte).      *)
(* u8 arithmetic is modelled with its width: a shift drops the bits that   *)
(* leave the byte, and an addition reports whether it exceeded 255 (a      *)
(* panic in a build with overflow checks, a wrap-around otherwise).        *)
(***************************************************************************)
EXTENDS Integers, Sequences, FiniteSets

VARIABLES
    kind,      \* the type of the current value: "bytes", "scalar", "hash",
               \* "edwards", "ristretto" or "result"
    trail,     \* the input followed by the value after each call
    hist,      \* the names of the calls made so far
    overflow,  \* whether some u8 addition of a call exceeded 255
    visited    \* for each call, the byte indices it visited, in order

vars == <<kind, trail, hist, overflow, visited>>

\* The number of calls made on one input.
MaxOps == 2

\* [u8; 32]
ScalarLen == 32

\* [0u8; 64]
WideLen == 64

\* The number of values of a u8.
U8Range == 256

value == trail[Len(trail)]

input == trail[1]

-----------------------------------------------------------------------------
(* u8 operations *)

RECURSIVE Pow2(_)
Pow2(n) == IF n = 0 THEN 1 ELSE 2 * Pow2(n - 1)

\* a & b
RECURSIVE BitAnd(_, _)
BitAnd(a, b) ==
    IF a = 0 \/ b = 0 THEN 0
    ELSE (a % 2) * (b % 2) + 2 * BitAnd(a \div 2, b \div 2)

\* a >> n on a u8
Shr8(a, n) == a \div Pow2(n)

\* a << n on a u8: the bits that leave the byte are dropped
Shl8(a, n) == (a * Pow2(n)) % U8Range

\* a + b on a u8: the wrapped sum, and whether the sum exceeded 255
AddU8(a, b) == [val |-> (a + b) % U8Range, overflow |-> a + b >= U8Range]

-----------------------------------------------------------------------------
(* Arithmetic on little-endian base-256 numerals *)

\* The digits from i on of n * k + carry, modulo 256^Len(n).
RECURSIVE MulDigits(_, _, _, _)
MulDigits(n, k, i, carry) ==
    IF i > Len(n) THEN <<>>
    ELSE LET t == n[i] * k + carry
         IN <<t % 256>> \o MulDigits(n, k, i + 1, t \div 256)

\* The digits 1..i of floor(n / k), by long division from the top digit,
\* rem being the remainder of the digits above i.
RECURSIVE DivDigits(_, _, _, _)
DivDigits(n, k, i, rem) ==
    IF i = 0 THEN <<>>
    ELSE LET t == rem * 256 + n[i]
         IN Append(DivDigits(n, k, i - 1, t % k), t \div k)

-----------------------------------------------------------------------------
(* divide_scalar_bytes_by_cofactor and multiply_scalar_bytes_by_cofactor *)

\* The loop of divide_scalar_bytes_by_cofactor from byte i down to byte 1.
RECURSIVE DivideLoop(_, _, _, _, _)
DivideLoop(scalar, i, low, ovf, seen) ==
    IF i = 0 THEN [bytes |-> scalar, overflow |-> ovf, visited |-> seen]
    ELSE LET r == BitAnd(scalar[i], 7)
             shifted == Shr8(scalar[i], 3)
             sum == AddU8(shifted, low)
         IN DivideLoop([scalar EXCEPT ![i] = sum.val], i - 1, Shl8(r, 5),
                       ovf \/ sum.overflow, Append(seen, i))

\* A divide whose carried remainder is shifted by 4, not 5.
RECURSIVE DivideLoopShift4(_, _, _, _, _)
DivideLoopShift4(scalar, i, low, ovf, seen) ==
    IF i = 0 THEN [bytes |-> scalar, overflow |-> ovf, visited |-> seen]
    ELSE LET r == BitAnd(scalar[i], 7)
             shifted == Shr8(scalar[i], 3)
             sum == AddU8(shifted, low)
         IN DivideLoopShift4([scalar EXCEPT ![i] = sum.val], i - 1, Shl8(r, 4),
                             ovf \/ sum.overflow, Append(seen, i))

divide_shift4(scalar) == DivideLoopShift4(scalar, Len(scalar), 0, FALSE, <<>>)

\* A divide that never adds the carried remainder.
RECURSIVE DivideLoopNoCarry(_, _, _)
DivideLoopNoCarry(scalar, i, seen) ==
    IF i = 0 THEN [bytes |-> scalar, overflow |-> FALSE, visited |-> seen]
    ELSE DivideLoopNoCarry([scalar EXCEPT ![i] = Shr8(scalar[i], 3)], i - 1,
                           Append(seen, i))

divide_no_carry(scalar) == DivideLoopNoCarry(scalar, Len(scalar), <<>>)

\* A divide that walks the bytes from the first up to the last.
RECURSIVE DivideLoopForward(_, _, _, _, _)
DivideLoopForward(scalar, i, low, ovf, seen) ==
    IF i > Len(scalar) THEN [bytes |-> scalar, overflow |-> ovf, visited |-> seen]
    ELSE LET r == BitAnd(scalar[i], 7)
             shifted == Shr8(scalar[i], 3)
             sum == AddU8(shifted, low)
         IN DivideLoopForward([scalar EXCEPT ![i] = sum.val], i + 1, Shl8(r, 5),
                              ovf \/ sum.overflow, Append(seen, i))

divide_forward(scalar) == DivideLoopForward(scalar, 1, 0, FALSE, <<>>)

divide_scalar_bytes_by_cofactor(scalar) ==
    DivideLoop(scalar, Len(scalar), 0, FALSE, <<>>)

\* The loop of multiply_scalar_bytes_by_cofactor from byte i up to the last.
RECURSIVE MultiplyLoop(_, _, _, _, _)
MultiplyLoop(scalar, i, high, ovf, seen) ==
    IF i > Len(scalar) THEN [bytes |-> scalar, overflow |-> ovf, visited |-> seen]
    ELSE LET r == BitAnd(scalar[i], 224)
             shifted == Shl8(scalar[i], 3)
             sum == AddU8(shifted, high)
         IN MultiplyLoop([scalar EXCEPT ![i] = sum.val], i + 1, Shr8(r, 5),
                         ovf \/ sum.overflow, Append(seen, i))

\* A multiply that never adds the carried bits.
RECURSIVE MultiplyLoopNoCarry(_, _, _)
MultiplyLoopNoCarry(scalar, i, seen) ==
    IF i > Len(scalar) THEN [bytes |-> scalar, overflow |-> FALSE, visited |-> seen]
    ELSE MultiplyLoopNoCarry([scalar EXCEPT ![i] = Shl8(scalar[i], 3)], i + 1,
                             Append(seen, i))

multiply_no_carry(scalar) == MultiplyLoopNoCarry(scalar, 1, <<>>)

\* A multiply that walks the bytes from the last down to the first.
RECURSIVE MultiplyLoopReversed(_, _, _, _, _)
MultiplyLoopReversed(scalar, i, high, ovf, seen) ==
    IF i = 0 THEN [bytes |-> scalar, overflow |-> ovf, visited |-> seen]
    ELSE LET r == BitAnd(scalar[i], 224)
             shifted == Shl8(scalar[i], 3)
             sum == AddU8(shifted, high)
         IN MultiplyLoopReversed([scalar EXCEPT ![i] = sum.val], i - 1, Shr8(r, 5),
                                 ovf \/ sum.overflow, Append(seen, i))

multiply_reversed(scalar) == MultiplyLoopReversed(scalar, Len(scalar), 0, FALSE, <<>>)

\* A multiply whose carry keeps 4 bits of the byte, not 3.
RECURSIVE MultiplyLoopShift4(_, _, _, _, _)
MultiplyLoopShift4(scalar, i, high, ovf, seen) ==
    IF i > Len(scalar) THEN [bytes |-> scalar, overflow |-> ovf, visited |-> seen]
    ELSE LET r == BitAnd(scalar[i], 240)
             shifted == Shl8(scalar[i], 3)
             sum == AddU8(shifted, high)
         IN MultiplyLoopShift4([scalar EXCEPT ![i] = sum.val], i + 1, Shr8(r, 4),
                               ovf \/ sum.overflow, Append(seen, i))

multiply_shift4(scalar) == MultiplyLoopShift4(scalar, 1, 0, FALSE, <<>>)

multiply_scalar_bytes_by_cofactor(scalar) ==
    MultiplyLoop(scalar, 1, 0, FALSE, <<>>)

-----------------------------------------------------------------------------
(* The buffers the calls are made on *)

\* Values of the first and of the last byte of a buffer.
EdgeBytes == {0, 1, 7, 31, 224, 248, 255}

\* Values of the second and of the last but one byte.
InnerBytes == {0, 165, 255}

\* Values of every other byte.
FillBytes == {0, 90, 255}

Buffer(b0, b1, fill, b30, b31) ==
    [i \in 1..ScalarLen |->
        IF i = 1 THEN b0
        ELSE IF i = 2 THEN b1
        ELSE IF i = ScalarLen - 1 THEN b30
        ELSE IF i = ScalarLen THEN b31
        ELSE fill]

Buffers ==
    {Buffer(b0, b1, fill, b30, b31) :
        b0 \in EdgeBytes, b1 \in InnerBytes, fill \in FillBytes,
        b30 \in InnerBytes, b31 \in EdgeBytes}

-----------------------------------------------------------------------------
(* The calls on a buffer *)

Init ==
    /\ kind = "bytes"
    /\ \E x \in Buffers : trail = <<x>>
    /\ hist = <<>>
    /\ overflow = FALSE
    /\ visited = <<>>

MultiplyBytes ==
    /\ kind = "bytes"
    /\ Len(hist) < MaxOps
    /\ LET out == multiply_scalar_bytes_by_cofactor(value)
       IN /\ trail' = Append(trail, out.bytes)
          /\ overflow' = (overflow \/ out.overflow)
          /\ visited' = Append(visited, out.visited)
    /\ hist' = Append(hist, "multiply_bytes")
    /\ UNCHANGED kind

DivideBytes ==
    /\ kind = "bytes"
    /\ Len(hist) < MaxOps
    /\ LET out == divide_scalar_bytes_by_cofactor(value)
       IN /\ trail' = Append(trail, out.bytes)
          /\ overflow' = (overflow \/ out.overflow)
          /\ visited' = Append(visited, out.visited)
    /\ hist' = Append(hist, "divide_bytes")
    /\ UNCHANGED kind

Next == MultiplyBytes \/ DivideBytes

Spec == Init /\ [][Next]_vars

-----------------------------------------------------------------------------
(* Scalar, as curve25519-dalek defines it: struct Scalar { bytes: [u8; 32] } *)

\* The group order L = 2^252 + 27742317777372353535851937790883648493.
BASEPOINT_ORDER ==
    <<237, 211, 245, 92, 26, 99, 18, 88, 214, 156, 247, 162, 222, 249, 222, 20,
      0, 0, 0, 0, 0, 0, 0, 0, 0, 0, 0, 0, 0, 0, 0, 16>>

\* a < b, for numerals of one length, decided at the highest digit that differs.
RECURSIVE LessFrom(_, _, _)
LessFrom(a, b, i) ==
    IF i = 0 THEN FALSE
    ELSE IF a[i] # b[i] THEN a[i] < b[i]
    ELSE LessFrom(a, b, i - 1)

LessThan(a, b) == LessFrom(a, b, Len(a))

\* The digits from i on of a - b - borrow, for a >= b.
RECURSIVE SubDigits(_, _, _, _)
SubDigits(a, b, i, borrow) ==
    IF i > Len(a) THEN <<>>
    ELSE LET t == a[i] - b[i] - borrow
         IN IF t < 0 THEN <<t + 256>> \o SubDigits(a, b, i + 1, 1)
            ELSE <<t>> \o SubDigits(a, b, i + 1, 0)

Zeros(n) == [i \in 1..n |-> 0]

\* 2 * acc + bit modulo the group order, for acc below the order.
DoubleMod(acc, bit) ==
    LET d == MulDigits(acc, 2, 1, bit)
    IN IF LessThan(d, BASEPOINT_ORDER) THEN d
       ELSE SubDigits(d, BASEPOINT_ORDER, 1, 0)

\* acc * 2^j + (the low j bits of byte) modulo the group order.
RECURSIVE AbsorbBits(_, _, _)
AbsorbBits(acc, byte, j) ==
    IF j = 0 \/ Len(acc) # ScalarLen THEN acc
    ELSE AbsorbBits(DoubleMod(acc, (byte \div Pow2(j - 1)) % 2), byte, j - 1)

\* The value of bytes i..Len(bytes) of the little-endian byte string, modulo
\* the group order, acc being the value of the bytes above i.
RECURSIVE ReduceFrom(_, _, _)
ReduceFrom(bytes, i, acc) ==
    IF i = 0 \/ Len(acc) # ScalarLen THEN acc
    ELSE ReduceFrom(bytes, i - 1, AbsorbBits(acc, bytes[i], 8))

\* Scalar::from_bytes_mod_order_wide(&[u8; 64])
from_bytes_mod_order_wide(bytes) ==
    [bytes |-> ReduceFrom(bytes, Len(bytes), Zeros(ScalarLen))]

\* Scalar::from_bytes_mod_order([u8; 32])
from_bytes_mod_order(bytes) ==
    [bytes |-> ReduceFrom(bytes, Len(bytes), Zeros(ScalarLen))]

\* Scalar::from_bits([u8; 32]): bit 255 is cleared, nothing is reduced.
from_bits(bytes) == [bytes |-> [bytes EXCEPT ![ScalarLen] = BitAnd(@, 127)]]

\* Scalar::to_bytes(&self)
to_bytes(scalar) == scalar.bytes

-----------------------------------------------------------------------------
(* An ExtendableOutput hash and its XofReader *)

\* The number of bytes of a hash's output stream kept beyond the first 64.
StreamTail == 1

\* ExtendableOutput::xof_result(self)
xof_result(hash) == [stream |-> hash.stream, pos |-> 0]

\* XofReader::read(&mut self, buffer): fills the whole buffer with the next bytes.
XofRead(reader, buffer) ==
    [buffer |-> [i \in 1..Len(buffer) |-> reader.stream[reader.pos + i]],
     reader |-> [reader EXCEPT !.pos = @ + Len(buffer)],
     visited |-> [i \in 1..Len(buffer) |-> reader.pos + i]]

\* A sampler that squeezes 32 bytes only and leaves the rest of the buffer zero.
scalar_from_xof_half(hash) ==
    LET output == Zeros(WideLen)
        got == XofRead(xof_result(hash), Zeros(ScalarLen))
        filled == [i \in 1..WideLen |->
                      IF i <= ScalarLen THEN got.buffer[i] ELSE output[i]]
    IN [scalar |-> from_bytes_mod_order_wide(filled), visited |-> got.visited]

scalar_from_xof(hash) ==
    LET output == Zeros(WideLen)
        got == XofRead(xof_result(hash), output)
    IN [scalar |-> from_bytes_mod_order_wide(got.buffer), visited |-> got.visited]

-----------------------------------------------------------------------------
(* divide_scalar_by_cofactor and multiply_scalar_by_cofactor *)

divide_scalar_by_cofactor(scalar) ==
    LET x == to_bytes(scalar)
        out == divide_scalar_bytes_by_cofactor(x)
    IN [scalar |-> from_bits(out.bytes), overflow |-> out.overflow,
        visited |-> out.visited]

\* A multiply that reduces its result modulo the group order.
multiply_scalar_reduced(scalar) ==
    LET x == to_bytes(scalar)
        out == multiply_scalar_bytes_by_cofactor(x)
    IN [scalar |-> from_bytes_mod_order(out.bytes), overflow |-> out.overflow,
        visited |-> out.visited]

multiply_scalar_by_cofactor(scalar) ==
    LET x == to_bytes(scalar)
        out == multiply_scalar_bytes_by_cofactor(x)
    IN [scalar |-> from_bits(out.bytes), overflow |-> out.overflow,
        visited |-> out.visited]

-----------------------------------------------------------------------------
(* The Scalars and the hashes the calls are made on *)

\* L - 1
OrderMinusOne == [BASEPOINT_ORDER EXCEPT ![1] = @ - 1]

\* Values of the last byte of a Scalar.
TopBytes == {0, 1, 15, 16}

\* The canonical Scalars: those below the group order.
CanonicalScalars ==
    {[bytes |-> b] :
        b \in {c \in {Buffer(b0, fill, fill, fill, b31) :
                         b0 \in EdgeBytes, fill \in {0, 255}, b31 \in TopBytes}
                    \cup {OrderMinusOne} :
                  LessThan(c, BASEPOINT_ORDER)}}

\* The halves a hash's first 64 output bytes are made of.
LowHalves == {Zeros(ScalarLen), [i \in 1..ScalarLen |-> 255], BASEPOINT_ORDER,
              OrderMinusOne}

HighHalves == {Zeros(ScalarLen), [i \in 1..ScalarLen |-> 255],
               [i \in 1..ScalarLen |-> IF i = 1 THEN 1 ELSE 0]}

Hashes ==
    {[stream |-> low \o high \o [i \in 1..StreamTail |-> tail]] :
        low \in LowHalves, high \in HighHalves, tail \in {0, 255}}

-----------------------------------------------------------------------------
(* The calls on a hash and on a Scalar *)

ScalarInit ==
    /\ \/ /\ kind = "hash"
          /\ \E h \in Hashes : trail = <<h>>
       \/ /\ kind = "scalar"
          /\ \E s \in CanonicalScalars : trail = <<s>>
    /\ hist = <<>>
    /\ overflow = FALSE
    /\ visited = <<>>

ScalarFromXof ==
    /\ kind = "hash"
    /\ Len(hist) < MaxOps
    /\ LET out == scalar_from_xof(value)
       IN /\ trail' = Append(trail, out.scalar)
          /\ visited' = Append(visited, out.visited)
    /\ kind' = "scalar"
    /\ hist' = Append(hist, "scalar_from_xof")
    /\ UNCHANGED overflow

MultiplyScalar ==
    /\ kind = "scalar"
    /\ Len(hist) < MaxOps
    /\ LET out == multiply_scalar_by_cofactor(value)
       IN /\ trail' = Append(trail, out.scalar)
          /\ overflow' = (overflow \/ out.overflow)
          /\ visited' = Append(visited, out.visited)
    /\ hist' = Append(hist, "multiply_scalar")
    /\ UNCHANGED kind

DivideScalar ==
    /\ kind = "scalar"
    /\ Len(hist) < MaxOps
    /\ LET out == divide_scalar_by_cofactor(value)
       IN /\ trail' = Append(trail, out.scalar)
          /\ overflow' = (overflow \/ out.overflow)
          /\ visited' = Append(visited, out.visited)
    /\ hist' = Append(hist, "divide_scalar")
    /\ UNCHANGED kind

ScalarNext == ScalarFromXof \/ MultiplyScalar \/ DivideScalar

ScalarSpec == ScalarInit /\ [][ScalarNext]_vars

-----------------------------------------------------------------------------
(* EdwardsPoint and RistrettoPoint                                         *)
(*                                                                         *)
(* The curve's group is the product of its 8-torsion subgroup, cyclic of   *)
(* order 8, and its odd-order subgroup, cyclic of order L. A point is      *)
(* <<t, s>>: t its component in the 8-torsion, s in the odd-order subgroup *)
(* whose order the model keeps small.                                      *)

\* The cofactor of the curve.
Cofactor == 8

\* Half of the order of the odd-order subgroup, rounded down.
MaxHalfOrder == 3

\* The order of the odd-order subgroup.
OddOrder == 2 * MaxHalfOrder + 1

EdwardsPoints == (0..(Cofactor - 1)) \X (0..(OddOrder - 1))

Identity == <<0, 0>>

PointAdd(p, q) == <<(p[1] + q[1]) % Cofactor, (p[2] + q[2]) % OddOrder>>

PointNeg(p) == <<(Cofactor - p[1]) % Cofactor, (OddOrder - p[2]) % OddOrder>>

\* n * p
RECURSIVE PointMul(_, _)
PointMul(n, p) == IF n = 0 THEN Identity ELSE PointAdd(p, PointMul(n - 1, p))

\* EdwardsPoint::is_torsion_free(&self): (self * BASEPOINT_ORDER).is_identity()
is_torsion_free(p) == PointMul(OddOrder, p) = Identity

\* A RistrettoPoint is RistrettoPoint(EdwardsPoint): it stores one point of the
\* coset it stands for, a point of the subgroup of the doubles.
RistrettoPoints == {<<PointAdd(p, p)>> : p \in EdwardsPoints}

\* RistrettoPoint's equality: the stored points differ by a point of order
\* dividing 4.
RistrettoEq(a, b) ==
    PointMul(Cofactor \div 2, PointAdd(a[1], PointNeg(b[1]))) = Identity

Ok(v) == [ok |-> TRUE, val |-> v]

Err(e) == [ok |-> FALSE, err |-> e]

\* A conversion that clears the cofactor of the stored point.
ristretto_to_edwards_cleared(p) == PointMul(Cofactor, p[1])

\* transmute::<RistrettoPoint, EdwardsPoint>(p): the stored point, as it is.
ristretto_to_edwards(p) == p[1]

\* A conversion without the check.
edwards_to_ristretto_unchecked(p) == Ok(<<p>>)

edwards_to_ristretto(p) ==
    IF ~is_torsion_free(p) THEN Err("PointDecompressionError")
    ELSE Ok(<<p>>)

-----------------------------------------------------------------------------
(* The calls on a point *)

PointInit ==
    /\ \/ /\ kind = "edwards"
          /\ \E p \in EdwardsPoints : trail = <<p>>
       \/ /\ kind = "ristretto"
          /\ \E p \in RistrettoPoints : trail = <<p>>
    /\ hist = <<>>
    /\ overflow = FALSE
    /\ visited = <<>>

RistrettoToEdwards ==
    /\ kind = "ristretto"
    /\ Len(hist) < MaxOps
    /\ trail' = Append(trail, ristretto_to_edwards(value))
    /\ kind' = "edwards"
    /\ hist' = Append(hist, "ristretto_to_edwards")
    /\ visited' = Append(visited, <<>>)
    /\ UNCHANGED overflow

EdwardsToRistretto ==
    /\ kind = "edwards"
    /\ Len(hist) < MaxOps
    /\ trail' = Append(trail, edwards_to_ristretto(value))
    /\ kind' = "result"
    /\ hist' = Append(hist, "edwards_to_ristretto")
    /\ visited' = Append(visited, <<>>)
    /\ UNCHANGED overflow

PointNext == RistrettoToEdwards \/ EdwardsToRistretto

PointSpec == PointInit /\ [][PointNext]_vars

-----------------------------------------------------------------------------
(* What the claims speak of *)

\* (n * 8) mod 2^256
Times8(n) == MulDigits(n, 8, 1, 0)

\* floor(n / 8)
Over8(n) == DivDigits(n, 8, Len(n), 0)

\* Bits 253..255 of the buffer are zero.
TopBitsZero(x) == x[ScalarLen] < 32

\* Bits 0..2 of the buffer are zero.
BottomBitsZero(x) == x[1] % 8 = 0

\* Call number i was f.
Called(i, f) == i <= Len(hist) /\ hist[i] = f

\* Calls number i and i + 1 were f and then g.
CalledThen(i, f, g) == Called(i, f) /\ Called(i + 1, g)

\* The buffer with bits 253..255 cleared.
ClearTopBits(x) == [x EXCEPT ![ScalarLen] = @ % 32]

\* The buffer with bits 0..2 cleared.
ClearBottomBits(x) == [x EXCEPT ![1] = @ - (@ % 8)]

UpTo == [n \in 0..WideLen |-> [i \in 1..n |-> i]]

DownFrom == [n \in 0..WideLen |-> [i \in 1..n |-> n + 1 - i]]

-----------------------------------------------------------------------------
(* The claims about the byte-level shifts, checked under Spec *)

\* C1: on a buffer whose bits 253..255 are zero, multiply_scalar_bytes_by_cofactor
\* followed by divide_scalar_bytes_by_cofactor gives back the buffer, byte for byte.
C1_MultiplyThenDivideIsIdentity ==
    \A i \in 1..Len(hist) :
        (CalledThen(i, "multiply_bytes", "divide_bytes") /\ TopBitsZero(trail[i]))
            => trail[i + 2] = trail[i]

\* A buffer with every bit below 253 set went through multiply and divide.
C1_Witness ==
    /\ hist = <<"multiply_bytes", "divide_bytes">>
    /\ input = Buffer(255, 255, 255, 255, 31)
    /\ trail[2] # input
    /\ value = input

\* C2: on a buffer whose bits 0..2 are zero, divide_scalar_bytes_by_cofactor
\* followed by multiply_scalar_bytes_by_cofactor gives back the buffer, byte for byte.
C2_DivideThenMultiplyIsIdentity ==
    \A i \in 1..Len(hist) :
        (CalledThen(i, "divide_bytes", "multiply_bytes") /\ BottomBitsZero(trail[i]))
            => trail[i + 2] = trail[i]

\* A buffer with every bit above 2 set went through divide and multiply.
C2_Witness ==
    /\ hist = <<"divide_bytes", "multiply_bytes">>
    /\ input = Buffer(248, 255, 255, 255, 255)
    /\ trail[2] # input
    /\ value = input

\* C3: multiply_scalar_bytes_by_cofactor leaves (n * 8) mod 2^256 in the buffer
\* that held n: the top 3 bits of each byte become the low 3 bits of the next
\* byte, the low 3 bits of byte 0 are zero, and the top 3 bits of byte 31 are gone.
C3_MultiplyIsTimes8 ==
    \A i \in 1..Len(hist) :
        Called(i, "multiply_bytes") =>
            /\ trail[i + 1] = Times8(trail[i])
            /\ trail[i + 1][1] % 8 = 0
            /\ \A j \in 2..ScalarLen :
                  /\ trail[i + 1][j] % 8 = trail[i][j - 1] \div 32
                  /\ trail[i + 1][j] \div 8 = trail[i][j] % 32

\* A multiply that carried between bytes and dropped three set bits.
C3_Witness ==
    /\ hist = <<"multiply_bytes">>
    /\ input = Buffer(255, 165, 90, 255, 255)
    /\ value = Times8(input)
    /\ value[1] = 248
    /\ value[2] = 47
    /\ value[ScalarLen] = 255

\* C4: divide_scalar_bytes_by_cofactor leaves floor(n / 8) in the buffer that
\* held n: the low 3 bits of each byte become the top 3 bits of the byte below,
\* the top 3 bits of byte 31 are zero, and the low 3 bits of byte 0 are gone.
C4_DivideIsFloorOver8 ==
    \A i \in 1..Len(hist) :
        Called(i, "divide_bytes") =>
            /\ trail[i + 1] = Over8(trail[i])
            /\ trail[i + 1][ScalarLen] \div 32 = 0
            /\ \A j \in 1..(ScalarLen - 1) :
                  /\ trail[i + 1][j] \div 32 = trail[i][j + 1] % 8
                  /\ trail[i + 1][j] % 32 = trail[i][j] \div 8

\* A divide that carried between bytes and dropped three set bits.
C4_Witness ==
    /\ hist = <<"divide_bytes">>
    /\ input = Buffer(255, 165, 90, 255, 255)
    /\ value = Over8(input)
    /\ value[1] = 191
    /\ value[ScalarLen] = 31

\* C9: when one of bits 253..255 is set, multiply then divide gives a different
\* buffer, the input with those three bits cleared; when one of bits 0..2 is set,
\* divide then multiply gives a different buffer, the input with those three
\* bits cleared. The lost bits appear nowhere else.
C9_LostBitsStayLost ==
    \A i \in 1..Len(hist) :
        /\ (CalledThen(i, "multiply_bytes", "divide_bytes") /\ ~TopBitsZero(trail[i]))
              => /\ trail[i + 2] # trail[i]
                 /\ trail[i + 2] = ClearTopBits(trail[i])
        /\ (CalledThen(i, "divide_bytes", "multiply_bytes") /\ ~BottomBitsZero(trail[i]))
              => /\ trail[i + 2] # trail[i]
                 /\ trail[i + 2] = ClearBottomBits(trail[i])

\* A buffer with bit 255 set and bit 0 clear went through multiply and divide
\* and lost bit 255 without gaining bit 0.
C9_Witness ==
    /\ hist = <<"multiply_bytes", "divide_bytes">>
    /\ input = Buffer(0, 165, 90, 0, 224)
    /\ value = Buffer(0, 165, 90, 0, 0)

\* C10: no u8 addition of the two byte-level shifts exceeds 255, and each call
\* visits the 32 bytes once each: multiply from byte 0 up, divide from byte 31 down.
C10_NoOverflow ==
    /\ ~overflow
    /\ \A i \in 1..Len(hist) :
          /\ Called(i, "multiply_bytes") => \A j \in 1..ScalarLen : trail[i + 1][j] < U8Range
          /\ Called(i, "divide_bytes") => \A j \in 1..ScalarLen : trail[i + 1][j] < U8Range
    /\ \A i \in 1..Len(hist) :
          /\ Called(i, "multiply_bytes") => visited[i] = UpTo[ScalarLen]
          /\ Called(i, "divide_bytes") => visited[i] = DownFrom[ScalarLen]

\* The buffer of 32 bytes 255 went through both shifts without an overflow.
C10_Witness ==
    /\ hist = <<"divide_bytes", "multiply_bytes">>
    /\ input = Buffer(255, 255, 255, 255, 255)
    /\ ~overflow
    /\ visited = <<DownFrom[ScalarLen], UpTo[ScalarLen]>>

-----------------------------------------------------------------------------
(* The claims about Scalars, checked under ScalarSpec *)

\* 0 <= value < L
IsCanonical(scalar) == LessThan(scalar.bytes, BASEPOINT_ORDER)

\* The buffer with bit 255 cleared.
ClearBit255(x) == [x EXCEPT ![ScalarLen] = @ % 128]

\* C7, as claimed: the Scalar returned by scalar_from_xof, and the Scalars
\* returned by divide_scalar_by_cofactor and multiply_scalar_by_cofactor on a
\* canonical Scalar, are below the group order.
C7_AllResultsCanonical ==
    \A i \in 1..Len(hist) :
        /\ Called(i, "scalar_from_xof") => IsCanonical(trail[i + 1])
        /\ (Called(i, "divide_scalar") /\ IsCanonical(trail[i]))
              => IsCanonical(trail[i + 1])
        /\ (Called(i, "multiply_scalar") /\ IsCanonical(trail[i]))
              => IsCanonical(trail[i + 1])

\* C7, amended: the Scalar returned by scalar_from_xof, and the Scalar returned
\* by divide_scalar_by_cofactor on a canonical Scalar, are below the group
\* order. multiply_scalar_by_cofactor on a canonical Scalar s returns 8 * s
\* with bit 255 cleared and no reduction: a Scalar that is not below the group
\* order exactly when L <= 8 * s < 2^255.
C7_CanonicalExceptMultiply ==
    \A i \in 1..Len(hist) :
        /\ Called(i, "scalar_from_xof") => IsCanonical(trail[i + 1])
        /\ (Called(i, "divide_scalar") /\ IsCanonical(trail[i]))
              => /\ IsCanonical(trail[i + 1])
                 /\ trail[i + 1].bytes = Over8(trail[i].bytes)
        /\ (Called(i, "multiply_scalar") /\ IsCanonical(trail[i]))
              => LET product == Times8(trail[i].bytes)
                 IN /\ trail[i + 1].bytes = ClearBit255(product)
                    /\ ~IsCanonical(trail[i + 1])
                          <=> /\ ~LessThan(product, BASEPOINT_ORDER)
                              /\ product[ScalarLen] < 128

\* divide_scalar_by_cofactor took L - 1 to a canonical Scalar.
C7_Witness ==
    /\ hist = <<"divide_scalar">>
    /\ input.bytes = OrderMinusOne
    /\ value.bytes = Over8(OrderMinusOne)
    /\ IsCanonical(value)
    /\ value.bytes[ScalarLen] = 2

\* The first 64 bytes of a hash's output stream.
Squeezed(hash) == SubSeq(hash.stream, 1, WideLen)

\* C8: scalar_from_xof reads the first 64 bytes of the hash's output stream and
\* no more, and returns the Scalar whose value is those bytes, as a 512-bit
\* little-endian integer, modulo the group order: a canonical Scalar that is
\* the 64 bytes' low half when that is below the order and the high half is 0.
C8_ScalarFromXofIsWideReduction ==
    \A i \in 1..Len(hist) :
        Called(i, "scalar_from_xof") =>
            /\ visited[i] = UpTo[WideLen]
            /\ trail[i + 1] = from_bytes_mod_order_wide(Squeezed(trail[i]))
            /\ IsCanonical(trail[i + 1])
            /\ (/\ SubSeq(trail[i].stream, ScalarLen + 1, WideLen) = Zeros(ScalarLen)
                /\ LessThan(SubSeq(trail[i].stream, 1, ScalarLen), BASEPOINT_ORDER))
                  => trail[i + 1].bytes = SubSeq(trail[i].stream, 1, ScalarLen)

\* A stream that starts with L - 1, 32 bytes 255 and then more gave a Scalar.
C8_Witness ==
    /\ hist = <<"scalar_from_xof">>
    /\ SubSeq(input.stream, 1, ScalarLen) = OrderMinusOne
    /\ input.stream[WideLen] = 255
    /\ input.stream[WideLen + 1] = 255
    /\ IsCanonical(value)
    /\ visited = <<UpTo[WideLen]>>

-----------------------------------------------------------------------------
(* The claims about points, checked under PointSpec *)

\* The points of the odd-order subgroup: the multiples of the cofactor.
PrimeOrderSubgroup == {PointMul(Cofactor, p) : p \in EdwardsPoints}

\* The points whose order divides 8.
EightTorsion == {p \in EdwardsPoints : PointMul(Cofactor, p) = Identity}

\* C5: edwards_to_ristretto returns Err(PointDecompressionError) for a point
\* that is not torsion-free, so for every point of the 8-torsion but the
\* identity, and returns Ok of the point for a torsion-free one, so for the
\* identity and for every point of the odd-order subgroup.
C5_ErrExactlyOnTorsion ==
    \A i \in 1..Len(hist) :
        Called(i, "edwards_to_ristretto") =>
            LET p == trail[i]
                r == trail[i + 1]
            IN /\ r.ok <=> p \in PrimeOrderSubgroup
               /\ r.ok => r.val = <<p>>
               /\ ~r.ok => r.err = "PointDecompressionError"
               /\ p \in EightTorsion \ {Identity} => ~r.ok
               /\ p = Identity => r.ok

\* The point of order 2 was refused.
C5_Witness ==
    /\ hist = <<"edwards_to_ristretto">>
    /\ input = <<Cofactor \div 2, 0>>
    /\ ~value.ok
    /\ value.err = "PointDecompressionError"

\* C6, as claimed: edwards_to_ristretto(ristretto_to_edwards(q)) is Ok of a
\* point equal to q, whatever point q stores.
C6_RoundTripAlwaysOk ==
    \A i \in 1..Len(hist) :
        CalledThen(i, "ristretto_to_edwards", "edwards_to_ristretto") =>
            /\ trail[i + 2].ok
            /\ RistrettoEq(trail[i + 2].val, trail[i])

\* C6, amended: edwards_to_ristretto(ristretto_to_edwards(q)) is Ok of a point
\* equal to q when the point q stores is torsion-free, and is
\* Err(PointDecompressionError) when the stored point has a torsion component.
C6_RoundTripOkOnTorsionFree ==
    \A i \in 1..Len(hist) :
        CalledThen(i, "ristretto_to_edwards", "edwards_to_ristretto") =>
            LET q == trail[i]
                r == trail[i + 2]
            IN /\ r.ok <=> q[1] \in PrimeOrderSubgroup
               /\ r.ok => (r.val = q /\ RistrettoEq(r.val, q))
               /\ ~r.ok => r.err = "PointDecompressionError"

\* A RistrettoPoint that stores a point of the odd-order subgroup came back.
C6_Witness ==
    /\ hist = <<"ristretto_to_edwards", "edwards_to_ristretto">>
    /\ input = <<(<<0, 1>>)>>
    /\ value.ok
    /\ value.val = input

=============================================================================
